---- MODULE Spec2Model ----
(***************************************************************************)
(* The pool facade of the Rust wrapper (src/src/pool.rs) on top of the     *)
(* callback-correlation bridge: every facade function obtains a command    *)
(* handle and a dispatch adapter from ClosureHandler, invokes the native   *)
(* function with them and either hands the synchronous status and the      *)
(* receiver to ResultHandler (blocking and timeout forms) or returns the   *)
(* status (async form).  The native runtime fires the adapter later.       *)
(***************************************************************************)
EXTENDS Integers, Sequences, FiniteSets, TLC

VARIABLES
    nextId,      \* Handle Allocator: the next command handle to issue
    registry,    \* Pending Call Registry: command handle -> PendingCall
    pc,          \* position of every facade call
    fn,          \* the facade function and the arguments of every call
    handle,      \* command_handle of every call
    nativeRet,   \* the i32 the native function returned to the call
    err,         \* `err`, the ErrorCode made of it
    result,      \* what the facade function returned
    chan,        \* the call's channel: Outcomes sent and not yet received
    rxAlive,     \* the call still holds the receiver
    delivered,   \* the Outcomes handed to the call's PendingCall, in order
    timedOut,    \* the call returned because its deadline expired
    natWork,     \* native runtime: work per command handle
    pools,       \* native runtime: names of the pool configurations
    fatal        \* the process died of an internal-consistency failure

vars == <<nextId, registry, pc, fn, handle, nativeRet, err, result, chan,
          rxAlive, delivered, timedOut, natWork, pools, fatal>>

\* ---------------------------------------------------------------- bounds
MaxCalls == 2

Calls == 1..MaxCalls
Tokens == 1..MaxCalls

\* ------------------------------------------------------------ the facade
Ops == {"create_ledger_config", "open_ledger", "refresh", "list", "close",
        "delete", "set_protocol_version"}

Variants == {"blocking", "timeout", "async"}

\* pool names and pool_config arguments the tests use: a fresh name or "",
\* the sample genesis file, "{}" and a path that does not exist
PoolNames == {"TestPool"}

NoArg == "-"

\* the deadline the tests give the timeout forms, in milliseconds
VALID_TIMEOUT == 500

\* the timeout argument of a facade function: a zero duration or the valid
\* one for the timeout forms; the other forms take none (0 stands for it)
TimeoutsOf(variant) == IF variant = "timeout" THEN {0, VALID_TIMEOUT} ELSE {0}

\* what a facade function can be called with, by classes of arguments: the
\* pool_config of a creation names a sample genesis file, no genesis_txn, a
\* path that does not exist or a file that holds nonsense; the config of
\* open_ledger is None (NoArg) or given; a pool_handle is that of an open pool
\* or of none; a protocol_version is a supported or an unsupported one.  An
\* argument a function does not take is NoArg, or 0 for the version
ArgsOf(op) ==
    CASE op = "create_ledger_config" ->
             {[name |-> "TestPool", config |-> "sample_genesis",
               pool_handle |-> NoArg, protocol_version |-> 0],
              [name |-> "TestPool", config |-> "{}",
               pool_handle |-> NoArg, protocol_version |-> 0],
              [name |-> "TestPool", config |-> "nonexist",
               pool_handle |-> NoArg, protocol_version |-> 0],
              [name |-> "TestPool", config |-> "bad_genesis",
               pool_handle |-> NoArg, protocol_version |-> 0],
              [name |-> "", config |-> "sample_genesis",
               pool_handle |-> NoArg, protocol_version |-> 0]}
      [] op = "open_ledger" ->
             {[name |-> n, config |-> cfg,
               pool_handle |-> NoArg, protocol_version |-> 0] :
                 n \in PoolNames, cfg \in {NoArg, "{}"}}
      [] op = "delete" ->
             {[name |-> n, config |-> NoArg,
               pool_handle |-> NoArg, protocol_version |-> 0] : n \in PoolNames}
      [] op \in {"refresh", "close"} ->
             {[name |-> NoArg, config |-> NoArg,
               pool_handle |-> h, protocol_version |-> 0] :
                 h \in {"open_pool", "no_pool"}}
      [] op = "set_protocol_version" ->
             {[name |-> NoArg, config |-> NoArg,
               pool_handle |-> NoArg, protocol_version |-> v] : v \in {2, 3}}
      [] OTHER -> {[name |-> NoArg, config |-> NoArg,
                    pool_handle |-> NoArg, protocol_version |-> 0]}

\* the shape of the PendingCall a facade function registers: the
\* ClosureHandler function it calls (cb_ec / cb_ec_i32 / cb_ec_string and
\* their convert_ forms)
RegisteredShape(op) ==
    CASE op = "open_ledger" -> "i32"
      [] op = "list"        -> "string"
      [] OTHER              -> "empty"

\* AdapterShape with a slip: the no-value adapter is handed for every
\* operation
AdapterShape_empty(op) == "empty"

\* the shape of the Dispatch Adapter the private function hands to the
\* native function: ResponseEmptyCB / ResponseI32CB / ResponseStringCB
AdapterShape(op) ==
    CASE op = "open_ledger" -> "i32"
      [] op = "list"        -> "string"
      [] OTHER              -> "empty"

\* ------------------------------------------------------------- statuses
\* ErrorCode::from(i32): the native status as the wrapper's ErrorCode
ErrorCodeTable ==
    <<  <<0,   "Success">>,
        <<101, "CommonInvalidParam2">>,
        <<113, "CommonInvalidStructure">>,
        <<114, "CommonIOError">>,
        <<300, "PoolLedgerNotCreatedError">>,
        <<301, "PoolLedgerInvalidPoolHandle">>,
        <<306, "PoolLedgerConfigAlreadyExistsError">>,
        <<308, "PoolIncompatibleProtocolVersion">> >>

ErrorCode_from(code) ==
    LET hit == {i \in DOMAIN ErrorCodeTable : ErrorCodeTable[i][1] = code}
    IN  ErrorCodeTable[CHOOSE i \in hit : TRUE][2]

NativeSuccess == ErrorCode_from(0)

\* TimeoutStatus with a slip: a status of its own
TimeoutStatus_dedicated == "TimeoutExpired"

\* the status the timeout forms of ResultHandler return when the deadline expires
TimeoutStatus == "CommonIOError"

\* --------------------------------------------------------------- values
NoValue == [shape |-> "none", i32 |-> 0, str |-> {}]

EmptyValue == [shape |-> "empty", i32 |-> 0, str |-> {}]

I32Value(i) == [shape |-> "i32", i32 |-> i, str |-> {}]

StringValue(s) == [shape |-> "string", i32 |-> 0, str |-> s]

\* an Outcome as the native runtime hands it to a Dispatch Adapter; `of` is
\* the facade call whose native invocation produced it
Outcome(code, value, c) == [code |-> code, value |-> value, of |-> c]

\* ------------------------------------------------------------- registry
NoEntry == [owner |-> 0, shape |-> "none"]

NoWork == [state |-> "none", caller |-> 0, shape |-> "none",
           out |-> Outcome(0, NoValue, 0)]

NoResult == [tag |-> "none", status |-> "none", value |-> NoValue]

Ok(v) == [tag |-> "Ok", status |-> NativeSuccess, value |-> v]

Err(e) == [tag |-> "Err", status |-> e, value |-> NoValue]

Status(e) == [tag |-> "ErrorCode", status |-> e, value |-> NoValue]

NoFn == [op |-> "none", variant |-> "none", name |-> NoArg, config |-> NoArg,
         pool_handle |-> NoArg, protocol_version |-> 0, timeout |-> 0]

Init ==
    /\ nextId = 1
    /\ registry = [t \in Tokens |-> NoEntry]
    /\ pc = [c \in Calls |-> "idle"]
    /\ fn = [c \in Calls |-> NoFn]
    /\ handle = [c \in Calls |-> 0]
    /\ nativeRet = [c \in Calls |-> 0]
    /\ err = [c \in Calls |-> "none"]
    /\ result = [c \in Calls |-> NoResult]
    /\ chan = [c \in Calls |-> <<>>]
    /\ rxAlive = [c \in Calls |-> FALSE]
    /\ delivered = [c \in Calls |-> <<>>]
    /\ timedOut = [c \in Calls |-> FALSE]
    /\ natWork = [t \in Tokens |-> NoWork]
    /\ pools = {}
    /\ fatal = FALSE

\* ------------------------------------------------- the native runtime
\* the statuses the native function may return synchronously: the arguments
\* it rejects before scheduling any work (an empty pool name, a pool_config
\* without genesis_txn), else 0 and the work is scheduled.  A genesis file
\* that holds nonsense is refused with the same status as a missing
\* genesis_txn, either at once or by the callback
NativeSync(f) ==
    IF f.op = "create_ledger_config"
    THEN IF f.name = "" THEN {101}
         ELSE IF f.config = "{}" THEN {113}
         ELSE IF f.config = "bad_genesis" THEN {0, 113}
         ELSE {0}
    ELSE {0}

\* NativeCreate with a slip: the configuration is stored before the genesis
\* file is looked for
NativeCreate_storesFirst(f, c, ps) ==
    IF f.config = "nonexist"
    THEN {[out |-> Outcome(114, NoValue, c), pools |-> ps \cup {f.name}]}
    ELSE IF f.config = "bad_genesis"
    THEN {[out |-> Outcome(113, NoValue, c), pools |-> ps \cup {f.name}]}
    ELSE IF f.name \in ps
    THEN {[out |-> Outcome(306, NoValue, c), pools |-> ps]}
    ELSE {[out |-> Outcome(0, NoValue, c), pools |-> ps \cup {f.name}]}

\* NativeCreate with a slip: a name that exists is not looked for
NativeCreate_overwrites(f, c, ps) ==
    IF f.config = "nonexist"
    THEN {[out |-> Outcome(114, NoValue, c), pools |-> ps]}
    ELSE IF f.config = "bad_genesis"
    THEN {[out |-> Outcome(113, NoValue, c), pools |-> ps]}
    ELSE {[out |-> Outcome(0, NoValue, c), pools |-> ps \cup {f.name}]}

\* what the tests show of a creation the native call accepted: an unknown
\* genesis path is an I/O error and leaves no pool, a genesis file that holds
\* nonsense is an invalid structure and leaves no pool, an existing name is
\* refused and the pool stays, otherwise the pool exists afterwards
NativeCreate(f, c, ps) ==
    IF f.config = "nonexist"
    THEN {[out |-> Outcome(114, NoValue, c), pools |-> ps]}
    ELSE IF f.config = "bad_genesis"
    THEN {[out |-> Outcome(113, NoValue, c), pools |-> ps]}
    ELSE IF f.name \in ps
    THEN {[out |-> Outcome(306, NoValue, c), pools |-> ps]}
    ELSE {[out |-> Outcome(0, NoValue, c), pools |-> ps \cup {f.name}]}

\* what the scheduled work can complete with, for command handle t of call c:
\* the status and value for the callback and the pool configurations after it
NativeComplete(f, c, t, ps) ==
    CASE f.op = "create_ledger_config" -> NativeCreate(f, c, ps)
      [] f.op = "open_ledger" ->
            IF f.name \in ps
            THEN {[out |-> Outcome(0, I32Value(t), c), pools |-> ps]}
            ELSE {[out |-> Outcome(300, I32Value(0), c), pools |-> ps]}
      [] f.op = "delete" ->
            IF f.name \in ps
            THEN {[out |-> Outcome(0, NoValue, c), pools |-> ps \ {f.name}]}
            ELSE {[out |-> Outcome(114, NoValue, c), pools |-> ps]}
      [] f.op = "list" ->
            {[out |-> Outcome(0, StringValue(ps), c), pools |-> ps]}
      [] f.op \in {"refresh", "close"} ->
            IF f.pool_handle = "open_pool"
            THEN {[out |-> Outcome(0, NoValue, c), pools |-> ps]}
            ELSE {[out |-> Outcome(301, NoValue, c), pools |-> ps]}
      [] OTHER ->
            IF f.protocol_version \in {1, 2}
            THEN {[out |-> Outcome(0, NoValue, c), pools |-> ps]}
            ELSE {[out |-> Outcome(308, NoValue, c), pools |-> ps]}

\* ------------------------------------------------------- ClosureHandler
Blocks(variant) == variant \in {"blocking", "timeout"}

\* the PendingCall the ClosureHandler function stores for call c
PendingCall(c) == [owner |-> c, shape |-> RegisteredShape(fn[c].op)]

\* take(token): the entry, and the registry without it
TakeEntry(t) == registry[t]

RegistryAfterTake(t) == [registry EXCEPT ![t] = NoEntry]

\* the typed value a Dispatch Adapter of a shape makes of the raw payload
Convert(shape, value) ==
    CASE shape = "i32"    -> I32Value(value.i32)
      [] shape = "string" -> StringValue(value.str)
      [] OTHER            -> EmptyValue

\* a Dispatch Adapter of `shape` fired with (t, o): take the entry; an unknown
\* handle or an entry of another shape is fatal; else the Outcome goes to the
\* stored continuation: the user's closure, or a send on the call's channel,
\* which fails silently once the receiver is gone
Dispatch(t, o, shape) ==
    LET e == TakeEntry(t)
        typed == [o EXCEPT !.value = Convert(shape, o.value)]
    IN  IF e = NoEntry \/ e.shape # shape
        THEN /\ fatal' = TRUE
             /\ UNCHANGED <<registry, delivered, chan>>
        ELSE /\ registry' = RegistryAfterTake(t)
             /\ delivered' = [delivered EXCEPT ![e.owner] = Append(@, typed)]
             /\ chan' = IF Blocks(fn[e.owner].variant) /\ rxAlive[e.owner]
                        THEN [chan EXCEPT ![e.owner] = Append(@, typed)]
                        ELSE chan
             /\ UNCHANGED fatal

\* Begin with a slip: the command handle is read and the counter is not
\* advanced
Begin_reuses(c, op, variant, a) ==
    /\ ~fatal
    /\ pc[c] = "idle"
    /\ IF c = 1 THEN TRUE ELSE pc[c - 1] # "idle"
    /\ nextId \in Tokens
    /\ fn' = [fn EXCEPT ![c] = [op |-> op, variant |-> variant,
                                name |-> a.name, config |-> a.config,
                                pool_handle |-> a.pool_handle,
                                protocol_version |-> a.protocol_version,
                                timeout |-> a.timeout]]
    /\ handle' = [handle EXCEPT ![c] = nextId]
    /\ pc' = [pc EXCEPT ![c] = "allocated"]
    /\ UNCHANGED <<nextId, registry, nativeRet, err, result, chan, rxAlive,
                   delivered, timedOut, natWork, pools, fatal>>

\* ---------------------------------------------------- the facade calls
\* a thread enters a facade function: the ClosureHandler function it calls
\* first draws the next command handle.  Calls are numbered as they start.
Begin(c, op, variant, a) ==
    /\ ~fatal
    /\ pc[c] = "idle"
    /\ IF c = 1 THEN TRUE ELSE pc[c - 1] # "idle"
    /\ nextId \in Tokens
    /\ fn' = [fn EXCEPT ![c] = [op |-> op, variant |-> variant,
                                name |-> a.name, config |-> a.config,
                                pool_handle |-> a.pool_handle,
                                protocol_version |-> a.protocol_version,
                                timeout |-> a.timeout]]
    /\ handle' = [handle EXCEPT ![c] = nextId]
    /\ nextId' = nextId + 1
    /\ pc' = [pc EXCEPT ![c] = "allocated"]
    /\ UNCHANGED <<registry, nativeRet, err, result, chan, rxAlive, delivered,
                   timedOut, natWork, pools, fatal>>

\* the allocator in its other permitted form: any command handle that names
\* no registry entry and that no call has drawn and not yet registered, so a
\* handle is used again once its entry has been taken
BeginReusing(c, op, variant, a) ==
    /\ ~fatal
    /\ pc[c] = "idle"
    /\ IF c = 1 THEN TRUE ELSE pc[c - 1] # "idle"
    /\ \E t \in Tokens :
        /\ registry[t] = NoEntry
        /\ \A e \in Calls : pc[e] = "allocated" => handle[e] # t
        /\ handle' = [handle EXCEPT ![c] = t]
    /\ fn' = [fn EXCEPT ![c] = [op |-> op, variant |-> variant,
                                name |-> a.name, config |-> a.config,
                                pool_handle |-> a.pool_handle,
                                protocol_version |-> a.protocol_version,
                                timeout |-> a.timeout]]
    /\ pc' = [pc EXCEPT ![c] = "allocated"]
    /\ UNCHANGED <<nextId, registry, nativeRet, err, result, chan, rxAlive,
                   delivered, timedOut, natWork, pools, fatal>>

\* ... and stores the continuation under it: the sender of a new channel for
\* the blocking forms, the user's closure for the async form
Register(c) ==
    /\ ~fatal
    /\ pc[c] = "allocated"
    /\ IF registry[handle[c]] # NoEntry
       THEN /\ fatal' = TRUE
            /\ UNCHANGED <<registry, rxAlive, pc>>
       ELSE /\ registry' = [registry EXCEPT ![handle[c]] = PendingCall(c)]
            /\ rxAlive' = [rxAlive EXCEPT ![c] = Blocks(fn[c].variant)]
            /\ pc' = [pc EXCEPT ![c] = "registered"]
            /\ UNCHANGED fatal
    /\ UNCHANGED <<nextId, fn, handle, nativeRet, err, result, chan, delivered,
                   timedOut, natWork, pools>>

\* InvokeReady with a slip: the native function is invoked before the
\* continuation is stored
InvokeReady_early(c) == pc[c] = "allocated"

\* the facade function may invoke the native function now
InvokeReady(c) == pc[c] = "registered"

\* PassedHandle with a slip: the handle of the call issued before is passed
PassedHandle_previous(c) == IF handle[c] > 1 THEN handle[c] - 1 ELSE handle[c]

\* the command handle the facade function passes to the native function
PassedHandle(c) == handle[c]

\* the private function calls the native function with the command handle,
\* the arguments and the adapter; the native side rejects the arguments or
\* schedules the work
NativeCall(c) ==
    /\ ~fatal
    /\ InvokeReady(c)
    /\ \E code \in NativeSync(fn[c]) :
        /\ nativeRet' = [nativeRet EXCEPT ![c] = code]
        /\ natWork' = IF code = 0
                      THEN [natWork EXCEPT ![PassedHandle(c)] =
                              [state |-> "scheduled", caller |-> c,
                               shape |-> AdapterShape(fn[c].op),
                               out |-> NoWork.out]]
                      ELSE natWork
    /\ pc' = [pc EXCEPT ![c] = "in_native"]
    /\ UNCHANGED <<nextId, registry, fn, handle, err, result, chan, rxAlive,
                   delivered, timedOut, pools, fatal>>

\* ReturnedStatus with a slip: every failure is reported as CommonIOError
ReturnedStatus_lossy(c) ==
    IF nativeRet[c] = 0 THEN NativeSuccess ELSE "CommonIOError"

\* the status the private function returns to the facade function
ReturnedStatus(c) == ErrorCode_from(nativeRet[c])

\* the native function returns; the private function converts its status
NativeReturn(c) ==
    /\ ~fatal
    /\ pc[c] = "in_native"
    /\ err' = [err EXCEPT ![c] = ReturnedStatus(c)]
    /\ pc' = [pc EXCEPT ![c] = "returned"]
    /\ UNCHANGED <<nextId, registry, fn, handle, nativeRet, result, chan,
                   rxAlive, delivered, timedOut, natWork, pools, fatal>>

\* AsyncReturn with a slip: the facade also calls the closure itself with the
\* status of the native call
AsyncReturn_notify(c) ==
    /\ ~fatal
    /\ pc[c] = "returned"
    /\ fn[c].variant = "async"
    /\ result' = [result EXCEPT ![c] = Status(err[c])]
    /\ delivered' = [delivered EXCEPT ![c] =
                        Append(@, Outcome(nativeRet[c], EmptyValue, c))]
    /\ pc' = [pc EXCEPT ![c] = "done"]
    /\ UNCHANGED <<nextId, registry, fn, handle, nativeRet, err, chan, rxAlive,
                   timedOut, natWork, pools, fatal>>

\* AsyncReturn with a slip: the facade reports a failure of the native call
\* to the closure as well
AsyncReturn_notifyError(c) ==
    /\ ~fatal
    /\ pc[c] = "returned"
    /\ fn[c].variant = "async"
    /\ result' = [result EXCEPT ![c] = Status(err[c])]
    /\ delivered' = IF err[c] # NativeSuccess
                    THEN [delivered EXCEPT ![c] =
                            Append(@, Outcome(nativeRet[c], EmptyValue, c))]
                    ELSE delivered
    /\ pc' = [pc EXCEPT ![c] = "done"]
    /\ UNCHANGED <<nextId, registry, fn, handle, nativeRet, err, chan, rxAlive,
                   timedOut, natWork, pools, fatal>>

\* AsyncReturn with a slip: the async form holds its return until the closure
\* has been invoked
AsyncReturn_waits(c) ==
    /\ ~fatal
    /\ pc[c] = "returned"
    /\ fn[c].variant = "async"
    /\ delivered[c] # <<>>
    /\ result' = [result EXCEPT ![c] = Status(err[c])]
    /\ pc' = [pc EXCEPT ![c] = "done"]
    /\ UNCHANGED <<nextId, registry, fn, handle, nativeRet, err, chan, rxAlive,
                   delivered, timedOut, natWork, pools, fatal>>

\* the async form returns the status of the native call
AsyncReturn(c) ==
    /\ ~fatal
    /\ pc[c] = "returned"
    /\ fn[c].variant = "async"
    /\ result' = [result EXCEPT ![c] = Status(err[c])]
    /\ pc' = [pc EXCEPT ![c] = "done"]
    /\ UNCHANGED <<nextId, registry, fn, handle, nativeRet, err, chan, rxAlive,
                   delivered, timedOut, natWork, pools, fatal>>

\* HandedErr with a slip: the timeout forms hand Success to ResultHandler
HandedErr_timeoutSuccess(c) ==
    IF fn[c].variant = "timeout" THEN NativeSuccess ELSE err[c]

\* HandedErr with a slip: every form hands Success to ResultHandler
HandedErr_success(c) == NativeSuccess

\* the err the facade function hands to ResultHandler
HandedErr(c) == err[c]

\* HandedTimeout with a slip: the valid timeout is handed whatever the argument
HandedTimeout_valid(c) == VALID_TIMEOUT

\* the timeout the timeout form hands to ResultHandler
HandedTimeout(c) == fn[c].timeout

\* ResultHandler, given err and the receiver: a failure status is returned at
\* once, and the receiver is dropped.  The facade hands it neither the command
\* handle nor the registry, so the entry stored for the call stays where it is
EarlyError(c) ==
    /\ ~fatal
    /\ pc[c] = "returned"
    /\ Blocks(fn[c].variant)
    /\ HandedErr(c) # NativeSuccess
    /\ result' = [result EXCEPT ![c] = Err(HandedErr(c))]
    /\ rxAlive' = [rxAlive EXCEPT ![c] = FALSE]
    /\ pc' = [pc EXCEPT ![c] = "done"]
    /\ UNCHANGED <<nextId, registry, fn, handle, nativeRet, err, chan,
                   delivered, timedOut, natWork, pools, fatal>>

\* the Result ResultHandler makes of a received Outcome
ResultOf(o) ==
    IF ErrorCode_from(o.code) # NativeSuccess
    THEN Err(ErrorCode_from(o.code))
    ELSE Ok(o.value)

\* TimedForm with a slip: the blocking forms call the ResultHandler function
\* with a deadline as well
TimedForm_all(variant) == variant \in {"blocking", "timeout"}

\* the forms that call the ResultHandler function with a deadline
TimedForm(variant) == variant = "timeout"

\* the timeout form was given a zero duration: it expires at once
ExpiresAtOnce(c) == fn[c].variant = "timeout" /\ HandedTimeout(c) = 0

\* ResultHandler, err being Success: the receive returns the Outcome sent
Recv(c) ==
    /\ ~fatal
    /\ pc[c] = "returned"
    /\ Blocks(fn[c].variant)
    /\ HandedErr(c) = NativeSuccess
    /\ ~ExpiresAtOnce(c)
    /\ chan[c] # <<>>
    /\ result' = [result EXCEPT ![c] = ResultOf(Head(chan[c]))]
    /\ chan' = [chan EXCEPT ![c] = Tail(@)]
    /\ rxAlive' = [rxAlive EXCEPT ![c] = FALSE]
    /\ pc' = [pc EXCEPT ![c] = "done"]
    /\ UNCHANGED <<nextId, registry, fn, handle, nativeRet, err, delivered,
                   timedOut, natWork, pools, fatal>>

\* RegistryAfterTimeout with a slip: the expired call takes its entry
RegistryAfterTimeout_take(c) == [registry EXCEPT ![handle[c]] = NoEntry]

\* the registry once the deadline of call c has expired
RegistryAfterTimeout(c) == registry

\* WorkAfterTimeout with a slip: the expired call cancels the native work
WorkAfterTimeout_cancel(c) == [natWork EXCEPT ![handle[c]] = NoWork]

\* the native work once the deadline of call c has expired
WorkAfterTimeout(c) == natWork

\* ResultHandler timeout form, err being Success: the deadline expires with
\* nothing in the channel, or at once when the duration is zero; the receiver
\* is dropped with whatever it holds
Timeout(c) ==
    /\ ~fatal
    /\ pc[c] = "returned"
    /\ TimedForm(fn[c].variant)
    /\ HandedErr(c) = NativeSuccess
    /\ chan[c] = <<>> \/ ExpiresAtOnce(c)
    /\ chan' = [chan EXCEPT ![c] = <<>>]
    /\ result' = [result EXCEPT ![c] = Err(TimeoutStatus)]
    /\ timedOut' = [timedOut EXCEPT ![c] = TRUE]
    /\ rxAlive' = [rxAlive EXCEPT ![c] = FALSE]
    /\ registry' = RegistryAfterTimeout(c)
    /\ natWork' = WorkAfterTimeout(c)
    /\ pc' = [pc EXCEPT ![c] = "done"]
    /\ UNCHANGED <<nextId, fn, handle, nativeRet, err, delivered, pools, fatal>>

\* ------------------------------------------------- native callbacks
\* the native runtime completes the work scheduled under t and fires the
\* adapter it was given, on its own thread
NativeFire(t) ==
    /\ ~fatal
    /\ natWork[t].state = "scheduled"
    /\ \E r \in NativeComplete(fn[natWork[t].caller], natWork[t].caller, t, pools) :
        /\ natWork' = [natWork EXCEPT ![t].state = "fired", ![t].out = r.out]
        /\ pools' = r.pools
        /\ Dispatch(t, r.out, natWork[t].shape)
    /\ UNCHANGED <<nextId, pc, fn, handle, nativeRet, err, result, rxAlive,
                   timedOut>>

\* a protocol violation of the native runtime: the adapter fires again for a
\* command handle whose callback was already fired
NativeDoubleFire(t) ==
    /\ ~fatal
    /\ natWork[t].state = "fired"
    /\ Dispatch(t, natWork[t].out, natWork[t].shape)
    /\ UNCHANGED <<nextId, pc, fn, handle, nativeRet, err, result, rxAlive,
                   timedOut, natWork, pools>>

\* another protocol violation of the native runtime: the adapter fires, with
\* the status the call was rejected with, for the command handle of a call
\* that has returned the early error
NativeFireAfterReject(t) ==
    /\ ~fatal
    /\ natWork[t].state = "none"
    /\ \E c \in Calls :
        /\ pc[c] = "done"
        /\ PassedHandle(c) = t
        /\ nativeRet[c] # 0
        /\ natWork' = [natWork EXCEPT ![t] =
                          [state |-> "spurious", caller |-> c,
                           shape |-> AdapterShape(fn[c].op),
                           out |-> Outcome(nativeRet[c], NoValue, c)]]
        /\ Dispatch(t, Outcome(nativeRet[c], NoValue, c), AdapterShape(fn[c].op))
    /\ UNCHANGED <<nextId, pc, fn, handle, nativeRet, err, result, rxAlive,
                   timedOut, pools>>

CallStep(c) ==
    \/ \E op \in Ops, variant \in Variants :
          \E a \in ArgsOf(op), d \in TimeoutsOf(variant) :
              Begin(c, op, variant,
                    [name |-> a.name, config |-> a.config,
                     pool_handle |-> a.pool_handle,
                     protocol_version |-> a.protocol_version, timeout |-> d])
    \/ Register(c)
    \/ NativeCall(c)
    \/ NativeReturn(c)
    \/ AsyncReturn(c)
    \/ EarlyError(c)
    \/ Recv(c)
    \/ Timeout(c)

Next ==
    \/ \E c \in Calls : CallStep(c)
    \/ \E t \in Tokens : NativeFire(t)
    \/ \E t \in Tokens : NativeDoubleFire(t)

Spec == Init /\ [][Next]_vars

\* the native runtime keeps its protocol and fires every scheduled callback
NextLive ==
    \/ \E c \in Calls : CallStep(c)
    \/ \E t \in Tokens : NativeFire(t)

LiveSpec == Init /\ [][NextLive]_vars /\ \A t \in Tokens : WF_vars(NativeFire(t))

\* the native runtime may break its protocol in both ways
NextViolating ==
    \/ Next
    \/ \E t \in Tokens : NativeFireAfterReject(t)

ViolatingSpec == Init /\ [][NextViolating]_vars

CallStepReusing(c) ==
    \/ \E op \in Ops, variant \in Variants :
          \E a \in ArgsOf(op), d \in TimeoutsOf(variant) :
              BeginReusing(c, op, variant,
                           [name |-> a.name, config |-> a.config,
                            pool_handle |-> a.pool_handle,
                            protocol_version |-> a.protocol_version,
                            timeout |-> d])
    \/ Register(c)
    \/ NativeCall(c)
    \/ NativeReturn(c)
    \/ AsyncReturn(c)
    \/ EarlyError(c)
    \/ Recv(c)
    \/ Timeout(c)

\* the allocator gives command handles again, the native runtime keeps its
\* protocol
NextReusing ==
    \/ \E c \in Calls : CallStepReusing(c)
    \/ \E t \in Tokens : NativeFire(t)

ReusingSpec == Init /\ [][NextReusing]_vars

\* ---------------------------------------------------------------- claims
Issued(c) == pc[c] \in {"in_native", "returned", "done"}

Scheduled(c) == Issued(c) /\ nativeRet[c] = 0

Fired(c) == Scheduled(c) /\ natWork[handle[c]].state = "fired"

IsNativePair(code, status) ==
    \E i \in DOMAIN ErrorCodeTable : ErrorCodeTable[i] = <<code, status>>

\* C1: at-most-once delivery: no PendingCall (channel sender or user closure)
\* is ever handed more than one Outcome, whatever the callers and the native
\* callback threads do, a second firing of the adapter included.
C1_AtMostOnceDelivery == \A c \in Calls : Len(delivered[c]) <= 1

\* C1 witness: an Outcome was delivered and the adapter fired again for the
\* same command handle
C1_Witness ==
    \E c \in Calls : Len(delivered[c]) = 1 /\ Fired(c) /\ fatal

\* C2: eventual delivery: once the native call of a facade call has returned
\* success, exactly one Outcome is eventually handed to its PendingCall,
\* also when the caller timed out meanwhile.
C2_EventualDelivery ==
    \A c \in Calls : Scheduled(c) ~> (Len(delivered[c]) = 1)

\* C2 witness: a call whose deadline expired and whose PendingCall was handed
\* its Outcome afterwards
C2_Witness ==
    \E c \in Calls : timedOut[c] /\ Len(delivered[c]) = 1 /\ chan[c] = <<>>

\* C3: early error implies continuation not called: the closure of an async
\* call whose native call returned a failure status is never invoked.
C3_EarlyErrorNoContinuation ==
    \A c \in Calls :
        (fn[c].variant = "async" /\ Issued(c) /\ nativeRet[c] # 0)
            => delivered[c] = <<>>

\* C3 witness: an async call has returned a failure status and another call
\* has had its callback fired since
C3_Witness ==
    \E c, d \in Calls :
        /\ fn[c].variant = "async" /\ pc[c] = "done"
        /\ result[c] = Status("CommonInvalidStructure")
        /\ handle[d] > handle[c] /\ Fired(d)

\* C4: early-error cleanup: once a facade call whose native call returned a
\* failure status has returned, the registry holds no entry for its handle.
C4_EarlyErrorCleanup ==
    \A c \in Calls :
        (pc[c] = "done" /\ nativeRet[c] # 0) => registry[handle[c]] = NoEntry

\* C5: registry lifetime rule: an entry leaves the registry only in the step
\* in which the native runtime fires the adapter for its handle; no step of a
\* caller, a deadline expiring included, removes it.
C5_RegistryLifetime ==
    [][\A t \in Tokens :
          (registry[t] # NoEntry /\ registry'[t] = NoEntry)
              => (natWork[t].state = "scheduled" /\ natWork'[t].state = "fired")]_vars

\* C5 witness: a timeout call has returned on its deadline and its entry is
\* still in the registry
C5_Witness ==
    \E c \in Calls :
        pc[c] = "done" /\ timedOut[c] /\ registry[handle[c]] = PendingCall(c)

\* C6 as stated: the status returned on deadline expiry differs from every
\* status the native side returned synchronously or delivered through an
\* adapter.
C6_TimeoutStatusDedicated ==
    \A c \in Calls :
        timedOut[c] =>
            \A d \in Calls :
                /\ Issued(d) => result[c].status # ErrorCode_from(nativeRet[d])
                /\ \A i \in DOMAIN delivered[d] :
                      result[c].status # ErrorCode_from(delivered[d][i].code)

\* C6 amended: a timeout call whose deadline expires returns Err(CommonIOError),
\* made by ResultHandler and not by the native side, which can deliver that
\* same status itself.
C6_TimeoutIsCommonIOError ==
    \A c \in Calls :
        timedOut[c] =>
            /\ result[c] = Err("CommonIOError")
            /\ IsNativePair(114, result[c].status)
            /\ nativeRet[c] = 0

\* C6 witness: a call returned CommonIOError on its deadline and a blocking
\* call returned the CommonIOError the native side delivered
C6_Witness ==
    \E c, d \in Calls :
        /\ timedOut[c] /\ result[c] = Err("CommonIOError")
        /\ fn[d].variant = "blocking" /\ pc[d] = "done"
        /\ result[d] = Err("CommonIOError")
        /\ delivered[d] # <<>> /\ delivered[d][1].code = 114

Deleted(n) ==
    \E d \in Calls :
        /\ fn[d].op = "delete" /\ fn[d].name = n
        /\ Fired(d) /\ natWork[handle[d]].out.code = 0

\* C7: timeout does not abort the underlying work: after a timeout form of
\* create_ledger_config has returned on its deadline with the timeout failure,
\* the native work still completes, and when it completes with success the
\* pool configuration exists (until a delete of it completes).
C7_TimeoutDoesNotAbort ==
    \A c \in Calls :
        (timedOut[c] /\ fn[c].op = "create_ledger_config")
            ~> (/\ result[c] = Err(TimeoutStatus)
                /\ Fired(c)
                /\ (natWork[handle[c]].out.code = 0
                       => (fn[c].name \in pools \/ Deleted(fn[c].name))))

\* C7 witness: the call returned on its deadline and the pool configuration
\* it asked for exists
C7_Witness ==
    \E c \in Calls :
        /\ timedOut[c] /\ fn[c].op = "create_ledger_config" /\ pc[c] = "done"
        /\ Fired(c) /\ natWork[handle[c]].out.code = 0
        /\ fn[c].name \in pools

\* C8: no cross-delivery: every Outcome handed to the PendingCall of a call,
\* put in its channel or returned by it is the one the native side produced
\* for that call's own native invocation and command handle.
C8_NoCrossDelivery ==
    \A c \in Calls :
        /\ \A i \in DOMAIN delivered[c] :
              /\ delivered[c][i].of = c
              /\ delivered[c][i].code = natWork[handle[c]].out.code
              /\ delivered[c][i].value =
                    Convert(RegisteredShape(fn[c].op), natWork[handle[c]].out.value)
        /\ \A i \in DOMAIN chan[c] : chan[c][i] = delivered[c][i]
        /\ (pc[c] = "done" /\ Blocks(fn[c].variant) /\ nativeRet[c] = 0 /\ ~timedOut[c])
              => (delivered[c] # <<>> /\ result[c] = ResultOf(delivered[c][1]))

\* C8 witness: two calls have returned, each with a delivered Outcome, and
\* the two Outcomes differ in status and in value
C8_Witness ==
    \E c, d \in Calls :
        /\ handle[c] < handle[d]
        /\ Len(delivered[c]) = 1 /\ Len(delivered[d]) = 1
        /\ delivered[c][1].value # delivered[d][1].value
        /\ delivered[c][1].code # delivered[d][1].code
        /\ pc[c] = "done" /\ pc[d] = "done"

\* C9: registration precedes invocation: from the moment the native function
\* is invoked with success until the adapter fires, the PendingCall of the
\* call is in the registry, so the firing finds it, also before the native
\* function has returned to the caller.
C9_RegistrationPrecedesInvocation ==
    \A c \in Calls :
        /\ (Scheduled(c) /\ ~Fired(c)) => registry[handle[c]] = PendingCall(c)
        /\ Fired(c) => delivered[c] # <<>>

\* C9 witness: the adapter fired and delivered while the caller was still
\* inside the native function
C9_Witness ==
    \E c \in Calls :
        pc[c] = "in_native" /\ Fired(c) /\ Len(delivered[c]) = 1

\* C10: verbatim status propagation: apart from a deadline expiry, a blocking
\* call returns Err(s) exactly when the native call returned failure s or the
\* adapter delivered failure s, Ok(value) exactly when Success was delivered,
\* and an async call returns the status of the native call unchanged.
C10_VerbatimStatus ==
    \A c \in Calls :
        (pc[c] = "done" /\ ~timedOut[c]) =>
            IF fn[c].variant = "async"
            THEN /\ result[c].tag = "ErrorCode"
                 /\ IsNativePair(nativeRet[c], result[c].status)
            ELSE IF nativeRet[c] # 0
            THEN /\ result[c].tag = "Err"
                 /\ IsNativePair(nativeRet[c], result[c].status)
            ELSE /\ IsNativePair(natWork[handle[c]].out.code, result[c].status)
                 /\ result[c].tag = "Err" <=> natWork[handle[c]].out.code # 0
                 /\ result[c].tag = "Ok" <=> natWork[handle[c]].out.code = 0
                 /\ result[c].tag = "Ok" =>
                       result[c].value =
                          Convert(RegisteredShape(fn[c].op), natWork[handle[c]].out.value)

\* C10 witness: one blocking call returned the failure the native call
\* returned synchronously and another the failure the adapter delivered
C10_Witness ==
    \E c, d \in Calls :
        /\ fn[c].variant = "blocking" /\ pc[c] = "done" /\ nativeRet[c] = 113
        /\ result[c] = Err("CommonInvalidStructure")
        /\ fn[d].variant = "blocking" /\ pc[d] = "done" /\ nativeRet[d] = 0
        /\ natWork[handle[d]].out.code = 300
        /\ result[d] = Err("PoolLedgerNotCreatedError")

\* the Outcome the Dispatch Adapter of call c makes of what the native side
\* fired for the call's command handle
AdapterOutcome(c) ==
    LET o == natWork[handle[c]].out
    IN  [o EXCEPT !.value = Convert(AdapterShape(fn[c].op), o.value)]

\* C11: an async form never waits for the completion: once the native call has
\* returned, its return is enabled whether or not the adapter has fired, and
\* what it returns is the status of the native call; the closure is invoked
\* only by the Dispatch Adapter firing for the call's command handle, with
\* the status and value the native side delivered.
C11_AsyncReturnsImmediately ==
    \A c \in Calls :
        fn[c].variant = "async" =>
            /\ (pc[c] = "returned" /\ ~fatal) => ENABLED AsyncReturn(c)
            /\ pc[c] = "done" => result[c] = Status(ErrorCode_from(nativeRet[c]))
            /\ delivered[c] # <<>> =>
                   /\ Fired(c)
                   /\ delivered[c][1] = AdapterOutcome(c)

\* an async call has returned Success while its completion is still to come
\* and its closure is still stored
C11_Witness ==
    \E c \in Calls :
        /\ fn[c].variant = "async"
        /\ pc[c] = "done"
        /\ result[c] = Status(NativeSuccess)
        /\ natWork[handle[c]].state = "scheduled"
        /\ delivered[c] = <<>>
        /\ registry[handle[c]].owner = c

\* calls c and d were made with the same operation and arguments, and the
\* native side behaved the same for both: the same returned status and, when
\* that was success, the same delivered status and value
SameNativeBehaviour(c, d) ==
    /\ fn[c].op = fn[d].op
    /\ fn[c].name = fn[d].name
    /\ fn[c].config = fn[d].config
    /\ fn[c].pool_handle = fn[d].pool_handle
    /\ fn[c].protocol_version = fn[d].protocol_version
    /\ nativeRet[c] = nativeRet[d]
    /\ nativeRet[c] = 0 =>
           /\ delivered[c] # <<>>
           /\ delivered[d] # <<>>
           /\ delivered[c][1].code = delivered[d][1].code
           /\ delivered[c][1].value = delivered[d][1].value

\* C12: a timeout form that has returned, its native call having failed
\* synchronously or its completion having been delivered before the deadline,
\* returned the Result the blocking form returned for the same operation and
\* the same native behaviour.
C12_TimeoutAgreesWithBlocking ==
    \A c, d \in Calls :
        ( /\ fn[c].variant = "blocking"
          /\ fn[d].variant = "timeout"
          /\ pc[c] = "done"
          /\ pc[d] = "done"
          /\ SameNativeBehaviour(c, d)
          /\ nativeRet[d] # 0 \/ ~timedOut[d] )
        => result[d] = result[c]

\* a blocking list and a timeout list both returned the delivered string
C12_Witness ==
    \E c, d \in Calls :
        /\ fn[c].variant = "blocking"
        /\ fn[d].variant = "timeout"
        /\ fn[c].op = "list"
        /\ pc[c] = "done"
        /\ pc[d] = "done"
        /\ SameNativeBehaviour(c, d)
        /\ ~timedOut[d]
        /\ result[c].tag = "Ok"
        /\ result[d] = result[c]

\* call c is a creation the native side refused: with the returned status, or
\* with the status it delivered later
RejectedCreate(c) ==
    /\ fn[c].op = "create_ledger_config"
    /\ Issued(c)
    /\ \/ nativeRet[c] # 0
       \/ /\ Fired(c)
          /\ natWork[handle[c]].out.code # 0

\* C13: a creation the native side refuses has no effect: when the native
\* call returns the failure, the native side holds no work for the command
\* handle and nothing is ever delivered for it; when the failure is delivered,
\* the step that delivers it leaves the set of pool configurations as it was;
\* and once the call has returned the failure, nothing more is delivered to it.
C13_RejectedCreateNoEffect ==
    [][\A c \in Calls :
          /\ (RejectedCreate(c)' /\ nativeRet'[c] # 0) =>
                 /\ natWork'[handle'[c]].state = "none"
                 /\ delivered'[c] = <<>>
          /\ (RejectedCreate(c)' /\ Fired(c)' /\ ~Fired(c)) => pools' = pools
          /\ (RejectedCreate(c) /\ pc[c] = "done") => delivered'[c] = delivered[c]
      ]_vars

\* a creation with an unknown genesis path has returned the I/O error the
\* native side delivered, and the pool does not exist
C13_Witness ==
    \E c \in Calls :
        /\ RejectedCreate(c)
        /\ fn[c].config = "nonexist"
        /\ pc[c] = "done"
        /\ ~timedOut[c]
        /\ result[c] = Err(ErrorCode_from(114))
        /\ Len(delivered[c]) = 1
        /\ fn[c].name \notin pools

\* no call made so far deletes the pool configuration n
NeverDeleted(n) ==
    \A e \in Calls : ~(fn[e].op = "delete" /\ fn[e].name = n)

\* C14: when a creation has returned success for a name and no deletion of
\* the name was called, another creation for the same name, with a valid
\* configuration, that has returned without expiring returned
\* PoolLedgerConfigAlreadyExistsError, and the configuration exists.
C14_DuplicateCreateRefused ==
    \A c, d \in Calls :
        ( /\ c # d
          /\ fn[c].op = "create_ledger_config"
          /\ fn[d].op = "create_ledger_config"
          /\ fn[d].name = fn[c].name
          /\ fn[d].config = "sample_genesis"
          /\ NeverDeleted(fn[c].name)
          /\ pc[c] = "done"
          /\ result[c] = Ok(EmptyValue)
          /\ Blocks(fn[d].variant)
          /\ pc[d] = "done"
          /\ ~timedOut[d] )
        => /\ result[d] = Err(ErrorCode_from(306))
           /\ fn[c].name \in pools

\* the second of two blocking creations for one name was refused, the first
\* having succeeded, and the pool exists
C14_Witness ==
    \E c, d \in Calls :
        /\ c < d
        /\ fn[c].op = "create_ledger_config"
        /\ fn[d].op = "create_ledger_config"
        /\ fn[c].variant = "blocking"
        /\ fn[d].variant = "blocking"
        /\ fn[d].name = fn[c].name
        /\ pc[c] = "done"
        /\ pc[d] = "done"
        /\ result[c] = Ok(EmptyValue)
        /\ result[d] = Err("PoolLedgerConfigAlreadyExistsError")
        /\ fn[c].name \in pools

\* C15: command handles are unique among all calls, however their steps
\* interleave: no two calls hold the same handle; the handle the allocator
\* gives next names no entry of the registry; a call about to register finds
\* no entry under its handle, so no registration overwrites one; and every
\* entry is stored under the handle its owner drew.
C15_TokenUniqueness ==
    /\ \A c, d \in Calls :
           (c # d /\ pc[c] # "idle" /\ pc[d] # "idle") => handle[c] # handle[d]
    /\ nextId \in Tokens => registry[nextId] = NoEntry
    /\ \A c \in Calls : pc[c] = "allocated" => registry[handle[c]] = NoEntry
    /\ \A t \in Tokens :
           registry[t] # NoEntry => handle[registry[t].owner] = t

\* two calls are pending at once, each under its own command handle
C15_Witness ==
    \E c, d \in Calls :
        /\ c # d
        /\ pc[c] = "registered"
        /\ pc[d] = "registered"
        /\ handle[c] # handle[d]
        /\ registry[handle[c]].owner = c
        /\ registry[handle[d]].owner = d

\* C16: a Dispatch Adapter that fires for a command handle nothing is owed to,
\* a second firing for the handle or a firing after the call was rejected
\* with an early error, ends fatally and delivers nothing to any waiter.
C16_UnknownTokenFatal ==
    [][\A t \in Tokens :
          (NativeDoubleFire(t) \/ NativeFireAfterReject(t)) =>
              /\ fatal'
              /\ UNCHANGED <<delivered, chan>>
      ]_vars

\* C17: when the adapter fires for the command handle of a timeout call that
\* has already returned on its deadline, the entry is taken from the registry,
\* the send to the dropped receiver is not fatal, nothing is put in any
\* channel and no call's result changes: the Outcome is discarded.
C17_LateCompletionHarmless ==
    [][\A c \in Calls :
          ( /\ timedOut[c]
            /\ natWork[handle[c]].state = "scheduled"
            /\ natWork'[handle[c]].state = "fired" )
          => /\ registry'[handle[c]] = NoEntry
             /\ ~fatal'
             /\ Len(delivered'[c]) = 1
             /\ chan' = chan
             /\ result' = result
      ]_vars

\* the completion of a call that returned on a valid deadline was fired
\* afterwards: its entry is gone, nothing is fatal, its channel is empty and
\* its result is still the timeout status
C17_Witness ==
    \E c \in Calls :
        /\ timedOut[c]
        /\ fn[c].timeout = VALID_TIMEOUT
        /\ Fired(c)
        /\ registry[handle[c]] = NoEntry
        /\ ~fatal
        /\ chan[c] = <<>>
        /\ result[c] = Err(TimeoutStatus)

\* C18: only the receive of a blocking form waits for an adapter.  As long as
\* nothing is fatal, a call that has entered a facade function can take its
\* next step up to the return of the native call; an async form can then
\* return; a blocking or timeout form whose native call failed can return the
\* early error; and a call that can take no step of its own is a blocking or
\* timeout form whose native call returned success and whose channel is empty.
C18_OnlyReceiveSuspends ==
    \A c \in Calls :
        ~fatal =>
            /\ pc[c] \in {"allocated", "registered", "in_native"} =>
                   ENABLED CallStep(c)
            /\ (pc[c] = "returned" /\ fn[c].variant = "async") =>
                   ENABLED AsyncReturn(c)
            /\ (pc[c] = "returned" /\ Blocks(fn[c].variant) /\ nativeRet[c] # 0) =>
                   ENABLED EarlyError(c)
            /\ (pc[c] = "returned" /\ ~ENABLED CallStep(c)) =>
                   /\ Blocks(fn[c].variant)
                   /\ nativeRet[c] = 0
                   /\ chan[c] = <<>>

\* a blocking call has returned an early error and an async call has returned,
\* no adapter having fired
C18_Witness ==
    \E c, d \in Calls :
        /\ fn[c].variant = "blocking"
        /\ pc[c] = "done"
        /\ nativeRet[c] # 0
        /\ result[c].tag = "Err"
        /\ fn[d].variant = "async"
        /\ pc[d] = "done"
        /\ \A t \in Tokens : natWork[t].state # "fired"

\* C19: a timeout form given a zero duration, whose native call returned
\* success, does not wait: its only return is the deadline expiry, enabled as
\* soon as the native call has returned, and what it returns is the timeout
\* status; its registry entry is left in place until the adapter fires.
C19_ZeroDeadlineExpires ==
    \A c \in Calls :
        ( /\ pc[c] \in {"returned", "done"}
          /\ fn[c].variant = "timeout"
          /\ fn[c].timeout = 0
          /\ nativeRet[c] = 0 )
        => /\ (pc[c] = "returned" /\ ~fatal) =>
                  /\ ENABLED Timeout(c)
                  /\ ~ENABLED Recv(c)
           /\ pc[c] = "done" =>
                  /\ timedOut[c]
                  /\ result[c] = Err(TimeoutStatus)
           /\ ~Fired(c) => registry[handle[c]] = PendingCall(c)

\* a timeout call with a zero duration has returned the timeout status before
\* its completion was fired, and its entry is still in the registry
C19_Witness ==
    \E c \in Calls :
        /\ pc[c] = "done"
        /\ fn[c].variant = "timeout"
        /\ fn[c].timeout = 0
        /\ nativeRet[c] = 0
        /\ result[c] = Err(TimeoutStatus)
        /\ natWork[handle[c]].state = "scheduled"
        /\ registry[handle[c]] = PendingCall(c)

\* C20: for every call, of any operation and any of the three forms, the
\* shape of the PendingCall it registered is the shape of the Dispatch
\* Adapter it handed to the native side: no value for create_ledger_config,
\* refresh, close, delete and set_protocol_version, an i32 for open_ledger, a
\* string for list; what is delivered has that shape; and nothing fatal comes
\* from a dispatch that met an entry of another shape.
C20_ShapeAgreement ==
    /\ \A c \in Calls :
           LET shape == IF fn[c].op = "open_ledger" THEN "i32"
                        ELSE IF fn[c].op = "list" THEN "string"
                        ELSE "empty"
           IN  pc[c] \in {"registered", "in_native", "returned", "done"} =>
                   /\ registry[handle[c]] # NoEntry =>
                          registry[handle[c]].shape = shape
                   /\ natWork[handle[c]].state # "none" =>
                          natWork[handle[c]].shape = shape
                   /\ delivered[c] # <<>> => delivered[c][1].value.shape = shape
    /\ \A t \in Tokens :
           (registry[t] # NoEntry /\ natWork[t].state # "none") =>
               registry[t].shape = natWork[t].shape
    /\ fatal => \E t \in Tokens :
                    natWork[t].state = "fired" /\ registry[t] = NoEntry

\* an open_ledger call was delivered an i32 and a list call a string
C20_Witness ==
    \E c, d \in Calls :
        /\ fn[c].op = "open_ledger"
        /\ delivered[c] # <<>>
        /\ delivered[c][1].value.shape = "i32"
        /\ fn[d].op = "list"
        /\ delivered[d] # <<>>
        /\ delivered[d][1].value.shape = "string"

\* every facade call that was made has returned, and every native call that
\* returned success has had its callback fired
Quiescent ==
    /\ \A c \in Calls : pc[c] \in {"idle", "done"}
    /\ \A c \in Calls : (pc[c] = "done" /\ nativeRet[c] = 0) => Fired(c)

\* C21: at quiescence the registry is empty, whatever mix of blocking,
\* timeout and async calls, early errors and timeouts led there.
C21_NoLeakAtQuiescence ==
    Quiescent => \A t \in Tokens : registry[t] = NoEntry

\* C22: the Outcome that arrives for the command handle of a timeout call
\* that has expired reaches no other call, also when the handle is given
\* again to a later call: it is handed to no other call's continuation, put
\* in no other call's channel, and what another blocking call returns is the
\* Outcome of its own native invocation; every registry entry is stored
\* under the handle its owner drew.
C22_StaleCompletionDiscarded ==
    /\ \A c, d \in Calls :
           (c # d /\ timedOut[c]) =>
               /\ \A i \in DOMAIN delivered[d] : delivered[d][i].of # c
               /\ \A i \in DOMAIN chan[d] : chan[d][i].of # c
               /\ ( /\ pc[d] = "done"
                    /\ Blocks(fn[d].variant)
                    /\ nativeRet[d] = 0
                    /\ ~timedOut[d] )
                  => /\ delivered[d] # <<>>
                     /\ delivered[d][1].of = d
                     /\ result[d] = ResultOf(delivered[d][1])
    /\ \A t \in Tokens :
           registry[t] # NoEntry => handle[registry[t].owner] = t

\* a call returned on a valid deadline and its completion arrived afterwards;
\* a later blocking call was given the same command handle and has returned
\* the Outcome of its own native invocation
C22_Witness ==
    \E c, d \in Calls :
        /\ c < d
        /\ timedOut[c]
        /\ fn[c].timeout = VALID_TIMEOUT
        /\ Len(delivered[c]) = 1
        /\ delivered[c][1].of = c
        /\ pc[d] = "done"
        /\ handle[d] = handle[c]
        /\ fn[d].variant = "blocking"
        /\ Len(delivered[d]) = 1
        /\ delivered[d][1].of = d
        /\ result[d] = ResultOf(delivered[d][1])

\* C23: a blocking form without a deadline whose native call returned success
\* cannot return before the adapter has fired for its command handle; once it
\* has returned, the adapter has fired, the registry entry is gone, and what
\* it returned is the Ok or Err made of the Outcome that firing carried.
C23_BlockingResultNotFabricated ==
    \A c \in Calls :
        ( /\ pc[c] \in {"returned", "done"}
          /\ fn[c].variant = "blocking"
          /\ nativeRet[c] = 0 )
        => /\ (pc[c] = "returned" /\ ~Fired(c)) => ~ENABLED CallStep(c)
           /\ pc[c] = "done" =>
                  /\ Fired(c)
                  /\ registry[handle[c]] = NoEntry
                  /\ result[c].tag \in {"Ok", "Err"}
                  /\ result[c] = ResultOf(AdapterOutcome(c))

\* a blocking close has returned the Ok the adapter delivered, its entry
\* taken, and another blocking call waits while its entry is still registered
C23_Witness ==
    \E c, d \in Calls :
        /\ fn[c].variant = "blocking"
        /\ fn[c].op = "close"
        /\ pc[c] = "done"
        /\ Fired(c)
        /\ registry[handle[c]] = NoEntry
        /\ result[c] = Ok(EmptyValue)
        /\ fn[d].variant = "blocking"
        /\ pc[d] = "returned"
        /\ nativeRet[d] = 0
        /\ registry[handle[d]] = PendingCall(d)

====
